---- MODULE Spec2Model ----
(***************************************************************************)
(* Model of package scache (cache.go): an in-memory cache with a TTL per   *)
(* entry and LRU eviction, made of a map from keys to list elements        *)
(* (c.items) and a doubly-linked list in recency order (c.eviction),       *)
(* guarded by c.mu.                                                        *)
(*                                                                         *)
(* Four specifications are given over the same state.                      *)
(*   Spec       one caller: every method call runs from its Lock to its    *)
(*              return without anything in between (a sequential history). *)
(*   TickerSpec the calls of Spec and StartEvictionTicker, with the ticks  *)
(*              of its ticker in time.                                     *)
(*   ConcSpec   several goroutines and the sweeper: every statement that   *)
(*              reads or writes c.items or c.eviction is a step of its     *)
(*              own, c.mu orders the steps of the methods that take it,    *)
(*              and Flush, which takes no lock, runs its two assignments   *)
(*              between any two steps of the others.                       *)
(*   FairSpec   the steps of ConcSpec with the wait at c.mu.Lock(), under  *)
(*              fair scheduling.                                           *)
(***************************************************************************)
EXTENDS Integers, Sequences, FiniteSets, TLC

\* ---------------------------------------------------------------- bounds
MaxKey == 3
MaxVal == 2
MaxTTL == 1
MaxTime == 1
MaxCap == 2
NumProcs == 2
MaxConcKey == 2
MaxInterval == 1
MaxFairCap == 1
MaxFairVal == 1

Keys == 1..MaxKey
Vals == 1..MaxVal
\* ttl is a time.Duration: negative, zero and positive values are all inputs
TTLs == (0 - 1)..MaxTTL
\* capacity is an int: New takes it as given, non-positive values included
Capacities == (0 - 1)..MaxCap
Procs == 1..NumProcs
ConcKeys == 1..MaxConcKey
Sweeper == NumProcs + 1
Threads == Procs \cup {Sweeper}
\* FairSpec: the capacities (0: every Set finds the cache at capacity) and
\* the values; no condition of the code reads a value
FairCapacities == 0..MaxFairCap
FairVals == 1..MaxFairVal
\* the interval of StartEvictionTicker: time.NewTicker panics unless it is
\* positive, so that no ticker goroutine starts with another interval
Intervals == 1..MaxInterval

VARIABLES
    items,      \* c.items: the map, a function from the stored keys to elements
    eviction,   \* c.eviction: the list, front (most recently used) first
    capacity,   \* c.capacity
    now,        \* the clock time.Now() reads
    mu,         \* c.mu: 0 when free, else the thread holding it
    frame,      \* per thread: where it is in its call, with the call's locals
    ret,        \* kept by Spec: what the most recent call returned, with what
                \* the call was given (Set: ttl, and the clock reading at),
                \* what it found (Set: replaced, whether the key was stored,
                \* and oldExpiry, the expiry time of the entry replaced;
                \* Get: stored, and the expiry time of the entry found;
                \* Contains: stored, and front, whether the key was first
                \* in the list) and
                \* what it removed (Set: the key evicted, 0 if none, with
                \* the expiry time of its entry; Flush: the number of
                \* entries dropped)
    lastSet,    \* history kept by ConcSpec: per key, the value of the latest
                \* Set to have stored it (0 before the first)
    touched,    \* history kept by Spec: the stored keys by latest Set or
                \* successful Get/Contains, latest first
    ticker      \* the time.Ticker of StartEvictionTicker, once it is called:
                \* its interval d, the time next of its next tick, the time
                \* last of its latest tick (of its start, before the first)
                \* and the keys swept by the pass the latest tick ran

vars == <<items, eviction, capacity, now, mu, frame, ret, lastSet, touched, ticker>>

\* ------------------------------------------------- container/list and map
\* a nil *list.Element
NoElem == [key |-> 0, value |-> 0, expiry |-> 0, id |-> 0]

EmptyMap == [k \in {} |-> NoElem]

Range(f) == {f[x] : x \in DOMAIN f}

\* delete(m, k)
MapDelete(m, k) == [j \in (DOMAIN m) \ {k} |-> m[j]]

\* m[k] = e
MapPut(m, k, e) == [j \in (DOMAIN m) \cup {k} |-> IF j = k THEN e ELSE m[j]]

\* elem, found := m[k]
MapGet(m, k) == IF k \in DOMAIN m THEN m[k] ELSE NoElem

\* l.Remove(e): a no-op when e is not an element of l (e.list != l)
ListRemove(l, e) == SelectSeq(l, LAMBDA x : x # e)

\* l.MoveToFront(e): a no-op when e is not an element of l
ListMoveToFront(l, e) ==
    IF e \in Range(l) THEN <<e>> \o ListRemove(l, e) ELSE l

\* l.PushFront(e)
ListPushFront(l, e) == <<e>> \o l

\* l.Back(): nil on the empty list
ListBack(l) == IF Len(l) = 0 THEN NoElem ELSE l[Len(l)]

\* Expired with the comparison off by one: expired at the expiry time itself
Expired_AtOrAfter(e, t) == t >= e.expiry

\* time.Now().After(e.ExpiryTime) at clock reading t
Expired(e, t) == t > e.expiry

\* ----------------------------------------------------- element allocation
\* The elements the locals of the calls in progress point to.
FrameElems ==
    UNION {(IF "elem" \in DOMAIN frame[p] THEN {frame[p].elem} ELSE {})
           \cup (IF "m" \in DOMAIN frame[p] THEN Range(frame[p].m) ELSE {})
           : p \in Threads}

\* &entry{key, item} in a new list.Element, allocated with the cache at c: the
\* new element is none of those a pointer still reaches. id tells it from every
\* such element carrying the same key, value and expiry time, so that two
\* elements are equal exactly when they are the same element.
NewElem(c, k, v, exp) ==
    LET live == Range(c.items) \cup Range(c.eviction) \cup FrameElems
        used == {e.id : e \in {x \in live :
                                   x.key = k /\ x.value = v /\ x.expiry = exp}}
        id   == CHOOSE n \in 0..Cardinality(used) :
                    n \notin used /\ \A m \in 0..(n - 1) : m \in used
    IN [key |-> k, value |-> v, expiry |-> exp, id |-> id]

\* ------------------------------------------------ the methods, as functions
\* A cache value c is [items, eviction]; each operator below is the effect of
\* the statements named on it.

\* Set deleting the old value from the map and leaving it in the list
SetRemoveOld_IndexOnly(c, k) ==
    [items |-> MapDelete(c.items, k), eviction |-> c.eviction]

\* Set, lines 46-49: remove the old value if it exists
SetRemoveOld(c, k) ==
    IF k \in DOMAIN c.items
    THEN [items |-> MapDelete(c.items, k),
          eviction |-> ListRemove(c.eviction, c.items[k])]
    ELSE c

\* evictLRU taking the front of the list, the most recently used element
evictLRU_Front(c) ==
    LET elem == IF Len(c.eviction) = 0 THEN NoElem ELSE c.eviction[1]
    IN IF elem # NoElem
       THEN [items |-> MapDelete(c.items, elem.key),
             eviction |-> ListRemove(c.eviction, elem)]
       ELSE c

\* evictLRU
evictLRU(c) ==
    LET elem == ListBack(c.eviction)
    IN IF elem # NoElem
       THEN [items |-> MapDelete(c.items, elem.key),
             eviction |-> ListRemove(c.eviction, elem)]
       ELSE c

\* the capacity check reading capacity <= 0 as no limit
AtCapacity_Positive(l, cap) == cap > 0 /\ Len(l) >= cap

\* Set, lines 52-54: the capacity check
AtCapacity(l, cap) == Len(l) >= cap

SetEvict(c, cap) == IF AtCapacity(c.eviction, cap) THEN evictLRU(c) ELSE c

\* Set, lines 56-61: the new element goes to the front and into the map
SetInsert(c, e) ==
    [items |-> MapPut(c.items, e.key, e),
     eviction |-> ListPushFront(c.eviction, e)]

\* Set with the capacity check made before the old value is removed
SetResult_CheckFirst(c, cap, k, v, ttl, t) ==
    LET c2 == SetRemoveOld(SetEvict(c, cap), k)
    IN SetInsert(c2, NewElem(c2, k, v, t + ttl))

\* Set evicting an expired entry, when there is one, rather than the back
SetResult_ExpiredFirst(c, cap, k, v, ttl, t) ==
    LET c1   == SetRemoveOld(c, k)
        dead == {j \in DOMAIN c1.items : Expired(c1.items[j], t)}
        j    == CHOOSE x \in dead : TRUE
        c2   == IF ~AtCapacity(c1.eviction, cap) THEN c1
                ELSE IF dead = {} THEN evictLRU(c1)
                ELSE [items |-> MapDelete(c1.items, j),
                      eviction |-> ListRemove(c1.eviction, c1.items[j])]
    IN SetInsert(c2, NewElem(c2, k, v, t + ttl))

\* Set as a whole, at clock reading t
SetResult(c, cap, k, v, ttl, t) ==
    LET c2 == SetEvict(SetRemoveOld(c, k), cap)
    IN SetInsert(c2, NewElem(c2, k, v, t + ttl))

\* the key evictLRU removes inside Set(k, ...), 0 when it removes none
SetVictim(c, cap, k) ==
    LET c1 == SetRemoveOld(c, k)
    IN IF AtCapacity(c1.eviction, cap) THEN ListBack(c1.eviction).key ELSE 0

\* the miss condition without the expiry test
GetMiss_NoExpiry(c, k, t) == k \notin DOMAIN c.items

\* Get, line 71: the miss condition
GetMiss(c, k, t) == k \notin DOMAIN c.items \/ Expired(c.items[k], t)

\* Get deleting an expired entry from the map and leaving it in the list
GetResult_IndexOnly(c, k, t) ==
    IF GetMiss(c, k, t)
    THEN [items |-> MapDelete(c.items, k), eviction |-> c.eviction]
    ELSE [items |-> c.items,
          eviction |-> ListMoveToFront(c.eviction, c.items[k])]

\* Get as a whole, at clock reading t: the cache afterwards
GetResult(c, k, t) ==
    IF GetMiss(c, k, t)
    THEN (IF k \in DOMAIN c.items
          THEN [items |-> MapDelete(c.items, k),
                eviction |-> ListRemove(c.eviction, c.items[k])]
          ELSE c)
    ELSE [items |-> c.items,
          eviction |-> ListMoveToFront(c.eviction, c.items[k])]

\* Get returning the empty string and no error for an entry that has expired
GetReturn_ExpiredNoError(c, k, t) ==
    IF k \notin DOMAIN c.items
    THEN [op |-> "Get", key |-> k, value |-> 0, err |-> TRUE]
    ELSE IF Expired(c.items[k], t)
    THEN [op |-> "Get", key |-> k, value |-> 0, err |-> FALSE]
    ELSE [op |-> "Get", key |-> k, value |-> c.items[k].value, err |-> FALSE]

\* Get as a whole: what it returns
GetReturn(c, k, t) ==
    IF GetMiss(c, k, t)
    THEN [op |-> "Get", key |-> k, value |-> 0, err |-> TRUE]
    ELSE [op |-> "Get", key |-> k, value |-> c.items[k].value, err |-> FALSE]

\* Contains answering from the map alone, with no look at the expiry time
ContainsReturn_Stored(c, k, t) ==
    [op |-> "Contains", key |-> k, ok |-> k \in DOMAIN c.items]

\* Contains: err == nil of the Get it calls
ContainsReturn(c, k, t) ==
    [op |-> "Contains", key |-> k, ok |-> ~GetReturn(c, k, t).err]

\* Flush resetting the map and leaving the list
FlushResult_ItemsOnly(c) == [items |-> EmptyMap, eviction |-> c.eviction]

\* Flush
FlushResult(c) == [items |-> EmptyMap, eviction |-> <<>>]

\* evictExpiredItems finding nothing to remove
SweepResult_Nothing(c, t) == c

\* evictExpiredItems removing also the entries at their expiry time
SweepResult_AtOrAfter(c, t) ==
    LET dead == {k \in DOMAIN c.items : Expired_AtOrAfter(c.items[k], t)}
    IN [items |-> [k \in (DOMAIN c.items) \ dead |-> c.items[k]],
        eviction |-> SelectSeq(c.eviction,
                               LAMBDA e : e \notin {c.items[k] : k \in dead})]

\* evictExpiredItems as a whole, at clock reading t
SweepResult(c, t) ==
    LET dead == {k \in DOMAIN c.items : Expired(c.items[k], t)}
    IN [items |-> [k \in (DOMAIN c.items) \ dead |-> c.items[k]],
        eviction |-> SelectSeq(c.eviction,
                               LAMBDA e : e \notin {c.items[k] : k \in dead})]

\* ------------------------------------------------------------------ state
Idle == [pc |-> "idle"]
NoRet == [op |-> "none"]
\* StartEvictionTicker has not been called
NoTicker == [on |-> FALSE]
Cache == [items |-> items, eviction |-> eviction]

\* New(capacity)
Init ==
    /\ items = EmptyMap
    /\ eviction = <<>>
    /\ capacity \in Capacities
    /\ now = 0
    /\ mu = 0
    /\ frame = [p \in Threads |-> Idle]
    /\ ret = NoRet
    /\ lastSet = [k \in Keys |-> 0]
    /\ touched = <<>>
    /\ ticker = NoTicker

\* key k moves to the front of the access history, which keeps stored keys only
Touch(h, k, stored) ==
    SelectSeq(<<k>> \o SelectSeq(h, LAMBDA x : x # k), LAMBDA x : x \in stored)

\* the clock advances
Tick ==
    /\ now < MaxTime
    /\ now' = now + 1
    /\ UNCHANGED <<items, eviction, capacity, mu, frame, ret, lastSet, touched, ticker>>

\* ---------------------------------------------- Spec: one call at a time
Set(k, v, ttl) ==
    LET c2 == SetResult(Cache, capacity, k, v, ttl, now)
    IN /\ items' = c2.items
       /\ eviction' = c2.eviction
       /\ ret' = [op |-> "Set", key |-> k, ttl |-> ttl, at |-> now,
                  err |-> FALSE, replaced |-> k \in DOMAIN items,
                  evicted |-> SetVictim(Cache, capacity, k),
                  evictedExpiry |->
                      MapGet(items, SetVictim(Cache, capacity, k)).expiry,
                  oldExpiry |-> MapGet(items, k).expiry]
       /\ touched' = Touch(touched, k, DOMAIN c2.items)
       /\ UNCHANGED <<capacity, now, mu, frame, lastSet, ticker>>

Get(k) ==
    LET c2 == GetResult(Cache, k, now)
        r  == GetReturn(Cache, k, now)
    IN /\ items' = c2.items
       /\ eviction' = c2.eviction
       /\ ret' = [op |-> r.op, key |-> k, value |-> r.value, err |-> r.err,
                  stored |-> k \in DOMAIN items,
                  expiry |-> MapGet(items, k).expiry]
       /\ touched' = IF r.err
                     THEN SelectSeq(touched, LAMBDA x : x \in DOMAIN c2.items)
                     ELSE Touch(touched, k, DOMAIN c2.items)
       /\ UNCHANGED <<capacity, now, mu, frame, lastSet, ticker>>

Contains(k) ==
    LET c2 == GetResult(Cache, k, now)
        r  == ContainsReturn(Cache, k, now)
    IN /\ items' = c2.items
       /\ eviction' = c2.eviction
       /\ ret' = [op |-> r.op, key |-> k, ok |-> r.ok,
                  stored |-> k \in DOMAIN items,
                  front |-> Len(eviction) > 0 /\ eviction[1].key = k]
       /\ touched' = IF r.ok
                     THEN Touch(touched, k, DOMAIN c2.items)
                     ELSE SelectSeq(touched, LAMBDA x : x \in DOMAIN c2.items)
       /\ UNCHANGED <<capacity, now, mu, frame, lastSet, ticker>>

Flush ==
    LET c2 == FlushResult(Cache)
    IN /\ items' = c2.items
       /\ eviction' = c2.eviction
       /\ ret' = [op |-> "Flush", err |-> FALSE,
                  dropped |-> Cardinality(DOMAIN items)]
       /\ touched' = <<>>
       /\ UNCHANGED <<capacity, now, mu, frame, lastSet, ticker>>

\* one pass of the sweeper
Sweep ==
    LET c2 == SweepResult(Cache, now)
    IN /\ items' = c2.items
       /\ eviction' = c2.eviction
       /\ touched' = SelectSeq(touched, LAMBDA x : x \in DOMAIN c2.items)
       /\ UNCHANGED <<capacity, now, mu, frame, ret, lastSet, ticker>>

Next ==
    \/ \E k \in Keys, v \in Vals, ttl \in TTLs : Set(k, v, ttl)
    \/ \E k \in Keys : Get(k)
    \/ \E k \in Keys : Contains(k)
    \/ Flush
    \/ Sweep
    \/ Tick

Spec == Init /\ [][Next]_vars

\* ------------------------- TickerSpec: whole calls and the ticker goroutine
\* The calls of Spec, with StartEvictionTicker. Time is that of the ticker:
\* the tick due at ticker.next arrives on ticker.C at that clock reading and
\* the goroutine runs its pass at that reading, before the clock moves on.

\* StartEvictionTicker(d), lines 109-110: the first tick is due d from now
StartEvictionTicker(d) ==
    /\ ~ticker.on
    /\ ticker' = [on |-> TRUE, d |-> d, next |-> now + d, last |-> now,
                  swept |-> {}]
    /\ ret' = [op |-> "StartEvictionTicker"]
    /\ UNCHANGED <<items, eviction, capacity, now, mu, frame, lastSet,
                   touched>>

\* lines 111-112: a tick arrives and the goroutine calls evictExpiredItems
TickerFire ==
    /\ ticker.on
    /\ now = ticker.next
    /\ LET c2 == SweepResult(Cache, now)
       IN /\ items' = c2.items
          /\ eviction' = c2.eviction
          /\ touched' = SelectSeq(touched, LAMBDA x : x \in DOMAIN c2.items)
          /\ ticker' = [ticker EXCEPT !.next = now + ticker.d, !.last = now,
                                      !.swept = DOMAIN items \ DOMAIN c2.items]
    /\ UNCHANGED <<capacity, now, mu, frame, ret, lastSet>>

\* the clock advances, up to the time the next tick is due
TickerTick ==
    /\ ticker.on => now < ticker.next
    /\ Tick

TickerNext ==
    \/ \E k \in Keys, v \in Vals, ttl \in TTLs : Set(k, v, ttl)
    \/ \E k \in Keys : Get(k)
    \/ \E k \in Keys : Contains(k)
    \/ Flush
    \/ \E d \in Intervals : StartEvictionTicker(d)
    \/ TickerFire
    \/ TickerTick

TickerSpec == Init /\ [][TickerNext]_vars

\* ------------------------------------- ConcSpec: one statement at a time
\* frame[p].pc names the statement thread p executes next. A thread between
\* c.mu.Lock() and the deferred c.mu.Unlock() has mu = p. A call's result is
\* read off the frame of the statement that returns it.

Goto(p, f) == frame' = [frame EXCEPT ![p] = f]

\* Set without c.mu.Lock(): the lookup runs whoever holds the lock
SetLookup_NoLock(p, k, v, ttl) ==
    /\ frame[p] = Idle
    /\ Goto(p, [pc |-> IF k \in DOMAIN items THEN "set_remove" ELSE "set_check",
                op |-> "Set", key |-> k, value |-> v, ttl |-> ttl,
                elem |-> MapGet(items, k)])
    /\ UNCHANGED <<items, eviction, capacity, now, mu, ret, lastSet, touched, ticker>>

\* Set, lines 42-46: c.mu.Lock(); elem, found := c.items[key]
SetLookup(p, k, v, ttl) ==
    /\ frame[p] = Idle
    /\ mu = 0
    /\ mu' = p
    /\ Goto(p, [pc |-> IF k \in DOMAIN items THEN "set_remove" ELSE "set_check",
                op |-> "Set", key |-> k, value |-> v, ttl |-> ttl,
                elem |-> MapGet(items, k)])
    /\ UNCHANGED <<items, eviction, capacity, now, ret, lastSet, touched, ticker>>

\* Set, line 47: c.eviction.Remove(elem)
SetRemove(p) ==
    /\ frame[p].pc = "set_remove"
    /\ eviction' = ListRemove(eviction, frame[p].elem)
    /\ Goto(p, [frame[p] EXCEPT !.pc = "set_delete", !.elem = NoElem])
    /\ UNCHANGED <<items, capacity, now, mu, ret, lastSet, touched, ticker>>

\* Set, line 48: delete(c.items, key)
SetDelete(p) ==
    /\ frame[p].pc = "set_delete"
    /\ items' = MapDelete(items, frame[p].key)
    /\ Goto(p, [frame[p] EXCEPT !.pc = "set_check"])
    /\ UNCHANGED <<eviction, capacity, now, mu, ret, lastSet, touched, ticker>>

\* Set, line 52: if c.eviction.Len() >= c.capacity
SetCheck(p) ==
    /\ frame[p].pc = "set_check"
    /\ Goto(p, [frame[p] EXCEPT !.pc = IF AtCapacity(eviction, capacity)
                                       THEN "evict_back" ELSE "set_push"])
    /\ UNCHANGED <<items, eviction, capacity, now, mu, ret, lastSet, touched, ticker>>

\* evictLRU, lines 99-100: elem := c.eviction.Back(); if elem != nil
EvictBack(p) ==
    /\ frame[p].pc = "evict_back"
    /\ LET elem == ListBack(eviction)
       IN Goto(p, IF elem # NoElem
                  THEN [frame[p] EXCEPT !.pc = "evict_remove", !.elem = elem]
                  ELSE [frame[p] EXCEPT !.pc = "set_push"])
    /\ UNCHANGED <<items, eviction, capacity, now, mu, ret, lastSet, touched, ticker>>

\* evictLRU, line 101: c.eviction.Remove(elem)
EvictRemove(p) ==
    /\ frame[p].pc = "evict_remove"
    /\ eviction' = ListRemove(eviction, frame[p].elem)
    /\ Goto(p, [frame[p] EXCEPT !.pc = "evict_delete"])
    /\ UNCHANGED <<items, capacity, now, mu, ret, lastSet, touched, ticker>>

\* evictLRU, lines 102-103: delete(c.items, kv.key)
EvictDelete(p) ==
    /\ frame[p].pc = "evict_delete"
    /\ items' = MapDelete(items, frame[p].elem.key)
    /\ Goto(p, [frame[p] EXCEPT !.pc = "set_push", !.elem = NoElem])
    /\ UNCHANGED <<eviction, capacity, now, mu, ret, lastSet, touched, ticker>>

\* Set, lines 56-60: elem := c.eviction.PushFront(&entry{key, item})
SetPush(p) ==
    /\ frame[p].pc = "set_push"
    /\ LET e == NewElem(Cache, frame[p].key, frame[p].value, now + frame[p].ttl)
       IN /\ eviction' = ListPushFront(eviction, e)
          /\ Goto(p, [frame[p] EXCEPT !.pc = "set_store", !.elem = e])
    /\ UNCHANGED <<items, capacity, now, mu, ret, lastSet, touched, ticker>>

\* Set, lines 61-63: c.items[key] = elem; return nil (and the deferred Unlock)
SetStore(p) ==
    /\ frame[p].pc = "set_store"
    /\ items' = MapPut(items, frame[p].key, frame[p].elem)
    /\ lastSet' = [lastSet EXCEPT ![frame[p].key] = frame[p].value]
    /\ mu' = 0
    /\ Goto(p, Idle)
    /\ UNCHANGED <<eviction, capacity, now, ret, touched, ticker>>

\* Get, lines 68-71: c.mu.Lock(); elem, found := c.items[key]; the condition.
\* A key that is not found returns at once (line 77).
GetLookup(p, k, op) ==
    /\ frame[p] = Idle
    /\ mu = 0
    /\ IF k \notin DOMAIN items
       THEN UNCHANGED <<mu, frame>>
       ELSE /\ mu' = p
            /\ Goto(p, [pc |-> IF Expired(items[k], now)
                               THEN "get_remove" ELSE "get_touch",
                        op |-> op, key |-> k, elem |-> items[k]])
    /\ UNCHANGED <<items, eviction, capacity, now, ret, lastSet, touched, ticker>>

\* Get, line 74: c.eviction.Remove(elem)
GetRemove(p) ==
    /\ frame[p].pc = "get_remove"
    /\ eviction' = ListRemove(eviction, frame[p].elem)
    /\ Goto(p, [frame[p] EXCEPT !.pc = "get_delete", !.elem = NoElem])
    /\ UNCHANGED <<items, capacity, now, mu, ret, lastSet, touched, ticker>>

\* Get, lines 75-77: delete(c.items, key); return "", errors.New(...)
GetDelete(p) ==
    /\ frame[p].pc = "get_delete"
    /\ items' = MapDelete(items, frame[p].key)
    /\ mu' = 0
    /\ Goto(p, Idle)
    /\ UNCHANGED <<eviction, capacity, now, ret, lastSet, touched, ticker>>

\* Get, line 81: the value thread p returns, elem.Value.(*entry).value.Value
ReturnedValue(p) == frame[p].elem.value

\* Get, lines 80-81: c.eviction.MoveToFront(elem); return the value, nil
GetTouch(p) ==
    /\ frame[p].pc = "get_touch"
    /\ eviction' = ListMoveToFront(eviction, frame[p].elem)
    /\ mu' = 0
    /\ Goto(p, Idle)
    /\ UNCHANGED <<items, capacity, now, ret, lastSet, touched, ticker>>

\* Flush, line 92: c.items = make(map[string]*list.Element); no lock is taken
FlushItems(p) ==
    /\ frame[p] = Idle
    /\ items' = EmptyMap
    /\ Goto(p, [pc |-> "flush_eviction", op |-> "Flush"])
    /\ UNCHANGED <<eviction, capacity, now, mu, ret, lastSet, touched, ticker>>

\* Flush, lines 93-94: c.eviction = list.New(); return nil
FlushEviction(p) ==
    /\ frame[p].pc = "flush_eviction"
    /\ eviction' = <<>>
    /\ Goto(p, Idle)
    /\ UNCHANGED <<items, capacity, now, mu, ret, lastSet, touched, ticker>>

\* evictExpiredItems, lines 119-122: c.mu.Lock(); now := time.Now(); the range
\* statement evaluates c.items once: m is that map, less the keys visited
SweepBegin ==
    /\ frame[Sweeper] = Idle
    /\ mu = 0
    /\ mu' = Sweeper
    /\ Goto(Sweeper, [pc |-> "sweep_next", now |-> now, m |-> items])
    /\ UNCHANGED <<items, eviction, capacity, now, ret, lastSet, touched, ticker>>

\* evictExpiredItems, lines 122-123: the next key of the range, in any order
SweepVisit(k) ==
    /\ frame[Sweeper].pc = "sweep_next"
    /\ k \in DOMAIN frame[Sweeper].m
    /\ LET f == frame[Sweeper]
           e == f.m[k]
       IN Goto(Sweeper,
               IF Expired(e, f.now)
               THEN [pc |-> "sweep_remove", now |-> f.now,
                     m |-> MapDelete(f.m, k), key |-> k, elem |-> e]
               ELSE [f EXCEPT !.m = MapDelete(f.m, k)])
    /\ UNCHANGED <<items, eviction, capacity, now, mu, ret, lastSet, touched, ticker>>

\* evictExpiredItems, line 124: c.eviction.Remove(elem)
SweepRemove ==
    /\ frame[Sweeper].pc = "sweep_remove"
    /\ eviction' = ListRemove(eviction, frame[Sweeper].elem)
    /\ Goto(Sweeper, [frame[Sweeper] EXCEPT !.pc = "sweep_delete"])
    /\ UNCHANGED <<items, capacity, now, mu, ret, lastSet, touched, ticker>>

\* evictExpiredItems, line 125: delete(c.items, key)
SweepDelete ==
    /\ frame[Sweeper].pc = "sweep_delete"
    /\ items' = MapDelete(items, frame[Sweeper].key)
    /\ Goto(Sweeper, [pc |-> "sweep_next", now |-> frame[Sweeper].now,
                      m |-> frame[Sweeper].m])
    /\ UNCHANGED <<eviction, capacity, now, mu, ret, lastSet, touched, ticker>>

\* evictExpiredItems, line 128: the range is over; the deferred Unlock
SweepEnd ==
    /\ frame[Sweeper].pc = "sweep_next"
    /\ DOMAIN frame[Sweeper].m = {}
    /\ mu' = 0
    /\ Goto(Sweeper, Idle)
    /\ UNCHANGED <<items, eviction, capacity, now, ret, lastSet, touched, ticker>>

ConcNext ==
    \/ \E p \in Procs, k \in ConcKeys, v \in Vals, ttl \in TTLs : SetLookup(p, k, v, ttl)
    \/ \E p \in Procs : SetRemove(p)
    \/ \E p \in Procs : SetDelete(p)
    \/ \E p \in Procs : SetCheck(p)
    \/ \E p \in Procs : EvictBack(p)
    \/ \E p \in Procs : EvictRemove(p)
    \/ \E p \in Procs : EvictDelete(p)
    \/ \E p \in Procs : SetPush(p)
    \/ \E p \in Procs : SetStore(p)
    \/ \E p \in Procs, k \in ConcKeys : GetLookup(p, k, "Get")
    \/ \E p \in Procs, k \in ConcKeys : GetLookup(p, k, "Contains")
    \/ \E p \in Procs : GetRemove(p)
    \/ \E p \in Procs : GetDelete(p)
    \/ \E p \in Procs : GetTouch(p)
    \/ \E p \in Procs : FlushItems(p)
    \/ \E p \in Procs : FlushEviction(p)
    \/ SweepBegin
    \/ \E k \in ConcKeys : SweepVisit(k)
    \/ SweepRemove
    \/ SweepDelete
    \/ SweepEnd
    \/ Tick

ConcSpec == Init /\ [][ConcNext]_vars

\* ----------------------- FairSpec: the steps of ConcSpec, with c.mu.Lock()
\* A call of Set, Get or Contains, and a pass of the sweeper, first arrives at
\* c.mu.Lock() and waits there (pc "lock") until the lock is free; its
\* arguments are read once it has the lock. From there on the steps are those
\* of ConcSpec. Flush has no Lock and is as in ConcSpec. A run of FairSpec is
\* at one clock reading: an entry is expired by a negative ttl, valid by
\* another.

\* Contains taking c.mu itself before it calls Get
Invoke_ContainsLocks(p, op) ==
    /\ frame[p] = Idle
    /\ op = "Contains" => mu = 0
    /\ mu' = IF op = "Contains" THEN p ELSE mu
    /\ Goto(p, [pc |-> "lock", op |-> op])
    /\ UNCHANGED <<items, eviction, capacity, now, ret, lastSet, touched, ticker>>

\* a goroutine calls Set (line 41), Get (line 67) or Contains (line 85, which
\* holds nothing when it calls Get on line 86) and arrives at c.mu.Lock()
Invoke(p, op) ==
    /\ frame[p] = Idle
    /\ Goto(p, [pc |-> "lock", op |-> op])
    /\ UNCHANGED <<items, eviction, capacity, now, mu, ret, lastSet, touched, ticker>>

\* Set, lines 42-46, for the call waiting at Lock
LockSet(p, k, v, ttl) ==
    /\ frame[p] = [pc |-> "lock", op |-> "Set"]
    /\ mu = 0
    /\ mu' = p
    /\ Goto(p, [pc |-> IF k \in DOMAIN items THEN "set_remove" ELSE "set_check",
                op |-> "Set", key |-> k, value |-> v, ttl |-> ttl,
                elem |-> MapGet(items, k)])
    /\ UNCHANGED <<items, eviction, capacity, now, ret, lastSet, touched, ticker>>

\* Get, lines 68-71 (and 77 for a key that is not found), for the call waiting
\* at Lock
LockGet(p, k) ==
    /\ frame[p].pc = "lock"
    /\ frame[p].op \in {"Get", "Contains"}
    /\ mu = 0
    /\ IF k \notin DOMAIN items
       THEN mu' = 0 /\ Goto(p, Idle)
       ELSE /\ mu' = p
            /\ Goto(p, [pc |-> IF Expired(items[k], now)
                               THEN "get_remove" ELSE "get_touch",
                        op |-> frame[p].op, key |-> k, elem |-> items[k]])
    /\ UNCHANGED <<items, eviction, capacity, now, ret, lastSet, touched, ticker>>

\* line 111-112: a tick arrives; evictExpiredItems is called and arrives at Lock
TickerWake ==
    /\ frame[Sweeper] = Idle
    /\ Goto(Sweeper, [pc |-> "lock", op |-> "sweep"])
    /\ UNCHANGED <<items, eviction, capacity, now, mu, ret, lastSet, touched, ticker>>

\* evictExpiredItems, lines 119-122, for the pass waiting at Lock
LockSweep ==
    /\ frame[Sweeper] = [pc |-> "lock", op |-> "sweep"]
    /\ mu = 0
    /\ mu' = Sweeper
    /\ Goto(Sweeper, [pc |-> "sweep_next", now |-> now, m |-> items])
    /\ UNCHANGED <<items, eviction, capacity, now, ret, lastSet, touched, ticker>>

\* New(capacity), for the capacities of FairSpec
FairInit == Init /\ capacity \in FairCapacities

\* thread t, waiting at c.mu.Lock(), takes the lock
Acquire(t) ==
    IF t = Sweeper
    THEN LockSweep
    ELSE \/ \E k \in ConcKeys, v \in FairVals, ttl \in TTLs : LockSet(t, k, v, ttl)
         \/ \E k \in ConcKeys : LockGet(t, k)

\* thread t, inside a call and past its Lock if it has one, runs its next
\* statement
Continue(t) ==
    IF t = Sweeper
    THEN \/ \E k \in ConcKeys : SweepVisit(k)
         \/ SweepRemove
         \/ SweepDelete
         \/ SweepEnd
    ELSE \/ SetRemove(t) \/ SetDelete(t) \/ SetCheck(t)
         \/ EvictBack(t) \/ EvictRemove(t) \/ EvictDelete(t)
         \/ SetPush(t) \/ SetStore(t)
         \/ GetRemove(t) \/ GetDelete(t) \/ GetTouch(t)
         \/ FlushEviction(t)

FairNext ==
    \/ \E p \in Procs, op \in {"Set", "Get", "Contains"} : Invoke(p, op)
    \/ \E p \in Procs, k \in ConcKeys, v \in FairVals, ttl \in TTLs : LockSet(p, k, v, ttl)
    \/ \E p \in Procs, k \in ConcKeys : LockGet(p, k)
    \/ \E p \in Procs : SetRemove(p)
    \/ \E p \in Procs : SetDelete(p)
    \/ \E p \in Procs : SetCheck(p)
    \/ \E p \in Procs : EvictBack(p)
    \/ \E p \in Procs : EvictRemove(p)
    \/ \E p \in Procs : EvictDelete(p)
    \/ \E p \in Procs : SetPush(p)
    \/ \E p \in Procs : SetStore(p)
    \/ \E p \in Procs : GetRemove(p)
    \/ \E p \in Procs : GetDelete(p)
    \/ \E p \in Procs : GetTouch(p)
    \/ \E p \in Procs : FlushItems(p)
    \/ \E p \in Procs : FlushEviction(p)
    \/ TickerWake
    \/ LockSweep
    \/ \E k \in ConcKeys : SweepVisit(k)
    \/ SweepRemove
    \/ SweepDelete
    \/ SweepEnd

\* The scheduler runs every goroutine that can run (WF on its next statement);
\* sync.Mutex hands the lock to a goroutine that keeps waiting for it (its
\* starvation mode), which is SF on taking the lock.
FairSpec ==
    /\ FairInit
    /\ [][FairNext]_vars
    /\ \A t \in Threads : WF_vars(Continue(t)) /\ SF_vars(Acquire(t))

\* ----------------------------------------------------------------- claims
StoredKeys == DOMAIN items

\* the keys of list l, front first
ListKeys(l) == [i \in 1..Len(l) |-> l[i].key]

\* the stored key whose latest Set or successful Get/Contains is the oldest
Oldest == IF Len(touched) = 0 THEN 0 ELSE touched[Len(touched)]

\* the step is the call Set(k, v, ttl) of Spec, which ret' then names
SetCall(k, v, ttl) ==
    /\ ret'.op = "Set" /\ ret'.key = k /\ ret'.ttl = ttl
    /\ Set(k, v, ttl)

\* the step is the call Get(k) of Spec, which ret' then names
GetCall(k) ==
    /\ ret'.op = "Get" /\ ret'.key = k
    /\ Get(k)

\* the step is the call Flush() of Spec
FlushCall == ret'.op = "Flush" /\ Flush

\* C1: with capacity >= 1, in every state under any interleaving the number
\* of entries in the index, and in the recency order, is at most capacity.
C1_CapacityBound ==
    capacity >= 1 =>
        /\ Cardinality(StoredKeys) <= capacity
        /\ Len(eviction) <= capacity

\* C2: a Set of a key that is not stored, finding the cache at capacity (and
\* holding an entry), removes exactly one entry: the one whose latest Set or
\* successful Get/Contains is the oldest, which is the back of the recency
\* order. Every other entry stays, as it was.
C2_EvictsLeastRecentlyUsed ==
    [][\A k \in Keys, v \in Vals, ttl \in TTLs :
         (/\ SetCall(k, v, ttl)
          /\ k \notin StoredKeys
          /\ Len(eviction) >= capacity
          /\ Len(eviction) > 0)
         => /\ Oldest \in StoredKeys
            /\ Oldest = ListBack(eviction).key
            /\ DOMAIN items' = (StoredKeys \ {Oldest}) \cup {k}
            /\ Cardinality(DOMAIN items') = Cardinality(StoredKeys)
            /\ \A j \in StoredKeys \ {Oldest} : items'[j] = items[j]
            /\ ListKeys(eviction') =
                   <<k>> \o SubSeq(ListKeys(eviction), 1, Len(eviction) - 1)
      ]_vars

\* C2, reached: capacity 2, keys 1 and 2 set, key 2 read again, key 3 set:
\* key 1 is the one evicted, keys 2 and 3 are stored.
C2_Witness ==
    /\ capacity = 2
    /\ ret.op = "Set" /\ ret.key = 3 /\ ret.evicted = 1
    /\ StoredKeys = {2, 3}
    /\ ListKeys(eviction) = <<3, 2>>

\* C3: Set(k, v2, ttl) of a stored key k, in a cache holding exactly capacity
\* entries, removes no other key: the stored keys and the entry count are as
\* before, every other entry is as it was, and a Get(k) that follows before
\* the new expiry time has passed returns v2.
C3_OverwriteKeepsOthers ==
    [][\A k \in Keys, v \in Vals, ttl \in TTLs :
         (/\ SetCall(k, v, ttl)
          /\ k \in StoredKeys
          /\ Len(eviction) = capacity
          /\ Cardinality(StoredKeys) = capacity)
         => /\ DOMAIN items' = StoredKeys
            /\ Len(eviction') = Len(eviction)
            /\ \A j \in StoredKeys \ {k} : items'[j] = items[j]
            /\ \A t \in now..(now + ttl) :
                   /\ ~GetReturn(Cache', k, t).err
                   /\ GetReturn(Cache', k, t).value = v
      ]_vars

\* C3, reached: a full cache of capacity 2 in which the latest call was a Set
\* of a key that was stored, with value 2 and a ttl that leaves the entry
\* readable, and nothing was evicted.
C3_Witness ==
    /\ capacity = 2
    /\ Len(eviction) = 2
    /\ Cardinality(StoredKeys) = 2
    /\ ret.op = "Set" /\ ret.replaced /\ ret.evicted = 0 /\ ret.ttl > 0
    /\ items[ret.key].value = 2

\* C4 as claimed: a Get of a stored key returns NotFound when now >= expiry
\* time, the instant now = expiry time included, and the value when
\* now < expiry time.
C4_ExpiresAtExpiryTime ==
    [][\A k \in Keys :
         (GetCall(k) /\ k \in StoredKeys)
         => IF now >= items[k].expiry
            THEN ret'.err
            ELSE ~ret'.err /\ ret'.value = items[k].value
      ]_vars

\* C4 as amended: Set(k, v, ttl) stores k with expiry time now + ttl; a Get of
\* a stored key returns NotFound, and removes the entry, when now > expiry
\* time, and returns the stored value when now <= expiry time, the instant
\* now = expiry time included.
C4_ExpiresAfterExpiryTime ==
    [][/\ \A k \in Keys, v \in Vals, ttl \in TTLs :
            SetCall(k, v, ttl) => /\ items'[k].expiry = now + ttl
                                  /\ items'[k].value = v
       /\ \A k \in Keys :
            (GetCall(k) /\ k \in StoredKeys)
            => IF now > items[k].expiry
               THEN ret'.err /\ k \notin DOMAIN items'
               ELSE /\ ~ret'.err
                    /\ ret'.value = items[k].value
                    /\ k \in DOMAIN items'
      ]_vars

\* C4, reached: a Get that returned the value at the instant now = expiry time.
C4_Witness ==
    /\ ret.op = "Get" /\ ~ret.err
    /\ ret.stored /\ ret.expiry = now
    /\ ret.key \in StoredKeys
    /\ ret.value = items[ret.key].value

\* C5 as claimed: the Get(k) that comes next after Set(k, v, ttl) with
\* ttl <= 0 returns NotFound, however little time has passed.
C5_NonPositiveTTLExpired ==
    [][\A k \in Keys :
         (GetCall(k) /\ ret.op = "Set" /\ ret.key = k /\ ret.ttl <= 0)
         => ret'.err
      ]_vars

\* C5 as amended: the Get(k) that comes next after Set(k, v, ttl) with
\* ttl <= 0 returns NotFound when ttl < 0, however little time has passed,
\* and when ttl = 0 exactly if the clock has advanced since the Set; a Get at
\* the clock reading of a Set with ttl = 0 returns v.
C5_NonPositiveTTL ==
    [][\A k \in Keys :
         (GetCall(k) /\ ret.op = "Set" /\ ret.key = k /\ ret.ttl <= 0)
         => /\ ret'.err <=> (ret.ttl < 0 \/ now > ret.at)
            /\ ~ret'.err => ret'.value = items[k].value
      ]_vars

\* C5, reached: a Get found its key stored and returned NotFound at clock
\* reading 0, where only a Set with negative ttl at that same reading can have
\* stored an entry whose expiry time is below 0.
C5_Witness ==
    /\ ret.op = "Get" /\ ret.err
    /\ ret.stored /\ ret.expiry < 0
    /\ now = 0
    /\ ret.key \notin StoredKeys

\* a thread is inside a call: past its first statement and not yet returned
Busy(t) == frame[t].pc # "idle"

\* a Flush has reset the index and not yet the recency order, which still
\* holds entries
HalfFlushed ==
    /\ \E p \in Procs : frame[p].pc = "flush_eviction"
    /\ eviction # <<>>

\* a step of Set, Get, Contains or the sweep pass (evictLRU included)
LockedStep ==
    \E t \in Threads :
        /\ frame'[t] # frame[t]
        /\ \/ frame[t].pc \notin {"idle", "flush_eviction"}
           \/ frame'[t].pc \notin {"idle", "flush_eviction"}

\* no call is in progress
Quiescent == \A t \in Threads : ~Busy(t)

\* What every sequence of whole calls leaves (an invariant of Spec): the
\* recency order holds each stored key once, the index handle of a key is that
\* key's element of the recency order, and no more entries are held than
\* capacity allows (one, when capacity <= 0).
SeqShape ==
    /\ Len(eviction) = Cardinality(StoredKeys)
    /\ \A k \in StoredKeys : items[k].key = k /\ items[k] \in Range(eviction)
    /\ \A i \in 1..Len(eviction) : eviction[i].key \in StoredKeys
    /\ Len(eviction) <= (IF capacity >= 1 THEN capacity ELSE 1)

\* C6: every successful Get(k), under any interleaving, returns a value a
\* Set(k, ...) wrote for that key: the value of the latest Set(k, ...) to have
\* stored its entry, which in a sequential history is the most recent
\* Set(k, ...).
C6_GetReturnsWrittenValue ==
    \A p \in Procs :
        frame[p].pc = "get_touch"
        => /\ frame[p].elem.key = frame[p].key
           /\ lastSet[frame[p].key] \in Vals
           /\ ReturnedValue(p) = lastSet[frame[p].key]

\* C6, reached: a Get is at its return of value 2 while a Flush, between its
\* two assignments, has already emptied the index.
C6_Witness ==
    \E p \in Procs, q \in Procs :
        /\ frame[p].pc = "get_touch"
        /\ frame[p].op = "Get"
        /\ frame[q].pc = "flush_eviction"
        /\ StoredKeys = {}
        /\ ReturnedValue(p) = 2
        /\ frame[p].elem \in Range(eviction)

\* C7: no step of Set, Get, Contains or the sweep pass is taken in a state in
\* which a Flush has reset the index and not yet the recency order.
C7_FlushAtomic == [][HalfFlushed => ~LockedStep]_vars

\* C8: every call that reads or changes the index or the recency order holds
\* c.mu throughout, so at no time are two threads inside such calls.
C8_MutualExclusion == Cardinality({t \in Threads : Busy(t)}) <= 1

\* C9: whenever no call is in progress, the cache contents are those some
\* sequence of whole calls leaves.
C9_Linearizable == Quiescent => SeqShape

\* C10: a Flush leaves the cache as New(capacity) makes it: Contains(k) is
\* false and Get(k) is NotFound for every key; a Set(k, v, ttl) that follows
\* evicts nothing when capacity >= 1, and a Get(k) after it, before the expiry
\* time has passed, returns v.
C10_FlushClearsAll ==
    [][FlushCall =>
         /\ items' = EmptyMap
         /\ eviction' = <<>>
         /\ \A k \in Keys :
              /\ GetReturn(Cache', k, now).err
              /\ ~ContainsReturn(Cache', k, now).ok
              /\ capacity >= 1 => SetVictim(Cache', capacity, k) = 0
              /\ \A v \in Vals, ttl \in TTLs :
                   LET c2 == SetResult(Cache', capacity, k, v, ttl, now)
                   IN /\ DOMAIN c2.items = {k}
                      /\ ListKeys(c2.eviction) = <<k>>
                      /\ ttl >= 0 => GetReturn(c2, k, now).value = v
      ]_vars

\* C10, reached: a Flush of a full cache of capacity 2 has returned.
C10_Witness ==
    /\ ret.op = "Flush"
    /\ ret.dropped = 2
    /\ capacity = 2
    /\ items = EmptyMap
    /\ eviction = <<>>

TickerFireStep == ticker'.on /\ ticker.on /\ ticker' # ticker /\ TickerFire

ExpiryTimes == (0 - 1)..(MaxTime + MaxTTL)

\* cache c with the expiry time of the entry of each key j replaced by f[j]
WithExpiry(c, f) ==
    LET g(e) == [e EXCEPT !.expiry = f[e.key]]
    IN [items |-> [j \in DOMAIN c.items |-> g(c.items[j])],
        eviction |-> [i \in 1..Len(c.eviction) |-> g(c.eviction[i])]]

\* C12: a Set of a key that is not stored, finding the cache at capacity,
\* evicts the back of the recency order, the entry whose latest Set or
\* successful Get/Contains is the oldest, and keeps every other entry, expired
\* or not; the victim is the same whatever the expiry times of the entries
\* are, so that an unexpired entry is evicted while an expired one stays.
C12_EvictionIgnoresTTL ==
    [][\A k \in Keys, v \in Vals, ttl \in TTLs :
         (/\ SetCall(k, v, ttl)
          /\ k \notin StoredKeys
          /\ Len(eviction) >= capacity
          /\ Len(eviction) > 0)
         => LET victim == ListBack(eviction)
            IN /\ victim.key = Oldest
               /\ ret'.evicted = victim.key
               /\ victim.key \notin DOMAIN items'
               /\ victim \notin Range(eviction')
               /\ \A j \in StoredKeys \ {victim.key} :
                      /\ j \in DOMAIN items'
                      /\ items'[j] = items[j]
                      /\ items[j] \in Range(eviction')
               /\ \A f \in [StoredKeys -> ExpiryTimes] :
                      SetVictim(WithExpiry(Cache, f), capacity, k) = victim.key
      ]_vars

\* C12, reached: a Set has evicted an entry that had not expired (its expiry
\* time was the latest there is) while the entry it kept had already expired.
C12_Witness ==
    /\ ret.op = "Set" /\ ret.evicted # 0
    /\ ret.at = now
    /\ ret.evictedExpiry = MaxTime + MaxTTL
    /\ \E j \in StoredKeys \ {ret.key} : Expired(items[j], now)
    /\ ret.evicted \notin StoredKeys

\* the step is the call Contains(k) of Spec, which ret' then names
ContainsCall(k) ==
    /\ ret'.op = "Contains" /\ ret'.key = k
    /\ Contains(k)

\* C13: Contains(k) returns true exactly when Get(k), from the same state at
\* the same clock reading, returns a value, and leaves the index and the
\* recency order as that Get(k) leaves them: the entry at the front when it is
\* valid, out of both when it has expired, nothing changed when k is not
\* stored.
C13_ContainsIsGet ==
    [][\A k \in Keys :
         ContainsCall(k)
         => /\ ret'.ok <=> ~GetReturn(Cache, k, now).err
            /\ items' = GetResult(Cache, k, now).items
            /\ eviction' = GetResult(Cache, k, now).eviction
            /\ ret'.ok <=> (k \in StoredKeys /\ now <= items[k].expiry)
            /\ ret'.ok => /\ items' = items
                          /\ eviction'[1] = items[k]
                          /\ ListRemove(eviction', items[k])
                                 = ListRemove(eviction, items[k])
            /\ (~ret'.ok /\ k \in StoredKeys)
                   => /\ items' = MapDelete(items, k)
                      /\ eviction' = ListRemove(eviction, items[k])
            /\ k \notin StoredKeys => items' = items /\ eviction' = eviction
      ]_vars

\* C13, reached: a Contains of a valid entry that was second in the recency
\* order has answered true and the entry is now first.
C13_Witness ==
    /\ ret.op = "Contains" /\ ret.ok
    /\ ret.stored /\ ~ret.front
    /\ Len(eviction) = 2
    /\ eviction[1].key = ret.key
    /\ items[ret.key] = eviction[1]

\* C14: in a cache built with capacity <= 0 every call completes: Set, Get,
\* Contains, Flush and the sweep pass can be called in every state, the empty
\* cache included, where evictLRU finds no back element. Every Set(k, v, ttl)
\* removes whatever entry is held and leaves k as the only entry; no other
\* call adds an entry, so the cache never holds more than the entry most
\* recently set.
C14_NonPositiveCapacity ==
    /\ [](capacity <= 0 =>
            /\ Cardinality(StoredKeys) <= 1
            /\ Len(eviction) = Cardinality(StoredKeys)
            /\ \A k \in StoredKeys : eviction = <<items[k]>>
            /\ \A k \in Keys :
                 /\ ENABLED Get(k)
                 /\ ENABLED Contains(k)
                 /\ \A v \in Vals, ttl \in TTLs : ENABLED Set(k, v, ttl)
            /\ ENABLED Flush
            /\ ENABLED Sweep)
    /\ [][capacity <= 0 =>
            /\ \A k \in Keys, v \in Vals, ttl \in TTLs :
                 SetCall(k, v, ttl)
                 => /\ ~ret'.err
                    /\ DOMAIN items' = {k}
                    /\ items'[k].value = v
                    /\ eviction' = <<items'[k]>>
                    /\ \A j \in StoredKeys \ {k} : ret'.evicted = j
            /\ ~(DOMAIN items' \subseteq StoredKeys)
                 => \E k \in Keys, v \in Vals, ttl \in TTLs : SetCall(k, v, ttl)
         ]_vars

\* C14, reached: with capacity <= 0 a Set of a new key has evicted the entry
\* that was held and its own entry is the only one.
C14_Witness ==
    /\ capacity <= 0
    /\ ret.op = "Set" /\ ~ret.replaced /\ ret.evicted # 0
    /\ StoredKeys = {ret.key}
    /\ Len(eviction) = 1

\* what Get(k) returns with its one error: the empty string and "key not found"
NotFound(k) == [op |-> "Get", key |-> k, value |-> 0, err |-> TRUE]

\* C15: Set and Flush can be called in every state, for every key, value and
\* ttl and whatever the capacity, and return nil. Get(k) returns its error
\* exactly when k is not stored (never set, evicted, flushed or removed) or
\* its entry has expired, and what it returns is the same in all these cases;
\* otherwise it returns the stored value and nil.
C15_OnlyNotFound ==
    /\ [](/\ ENABLED Flush
          /\ \A k \in Keys, v \in Vals, ttl \in TTLs : ENABLED Set(k, v, ttl)
          /\ ret.op \in {"Set", "Flush"} => ~ret.err)
    /\ [][/\ \A k \in Keys, v \in Vals, ttl \in TTLs :
               SetCall(k, v, ttl) => ~ret'.err
          /\ FlushCall => ~ret'.err
          /\ \A k \in Keys :
               GetCall(k)
               => LET r == [op |-> ret'.op, key |-> ret'.key,
                            value |-> ret'.value, err |-> ret'.err]
                  IN /\ r.err <=> (k \notin StoredKeys \/ now > items[k].expiry)
                     /\ r.err => r = NotFound(k)
                     /\ ~r.err => r.value = items[k].value /\ r.value \in Vals
         ]_vars

\* C15, reached: a Get of a key that is not stored (never set, or evicted by
\* the Set of the entry that is held) has returned NotFound in a cache of
\* capacity 1 that holds another entry.
C15_Witness ==
    /\ capacity = 1
    /\ ret.op = "Get" /\ ret.err /\ ~ret.stored
    /\ ret.value = 0
    /\ Cardinality(StoredKeys) = 1
    /\ ret.key \notin StoredKeys

\* thread t is waiting at c.mu.Lock()
Waiting(t) == frame[t].pc = "lock"

\* C16: under fair scheduling every call of Set, Get, Contains and Flush and
\* every sweep pass that has begun returns, and the lock, once held, is
\* released; no thread waits at c.mu.Lock() for a lock it holds itself.
C16_DeadlockFree ==
    /\ \A t \in Threads : Busy(t) ~> ~Busy(t)
    /\ [](\A t \in Threads : (Waiting(t) \/ ~Busy(t)) => mu # t)
    /\ [](mu # 0 => Busy(mu))

\* C16, reached: one caller waits at Lock inside Contains and the sweeper
\* waits at Lock while the other caller holds the lock inside evictLRU.
C16_Witness ==
    \E p \in Procs, q \in Procs :
        /\ Waiting(p) /\ frame[p].op = "Contains"
        /\ Waiting(Sweeper)
        /\ mu = q
        /\ frame[q].pc = "evict_remove"

\* the index and the recency order hold the same keys, each key once in the
\* recency order, and the index handle of a key is the element of the recency
\* order that carries it
Structure ==
    /\ StoredKeys = {eviction[i].key : i \in 1..Len(eviction)}
    /\ \A i, j \in 1..Len(eviction) :
           eviction[i].key = eviction[j].key => i = j
    /\ \A k \in StoredKeys :
           \E i \in 1..Len(eviction) : eviction[i] = items[k] /\ items[k].key = k

\* C17: under any interleaving of Set, Get, Contains, Flush and sweep passes,
\* in every state in which no call is in progress the index and the recency
\* order have the same keys, each once, and every index handle refers to its
\* key's element of the current recency order.
C17_StructuralInvariant == Quiescent => Structure

\* C18: Set(k, v, ttl) of a key that is stored, expired or not, leaves exactly
\* one entry for k: in the index and once in the recency order, at its front,
\* with value v and expiry time now + ttl, whatever the old expiry time was;
\* with ttl >= 0 a Get(k) at that clock reading returns v. The call is taken
\* as the one step it is for every call that takes c.mu.
C18_SetReplaces ==
    [][\A k \in Keys, v \in Vals, ttl \in TTLs :
         (SetCall(k, v, ttl) /\ k \in StoredKeys)
         => /\ ret'.replaced
            /\ k \in DOMAIN items'
            /\ Cardinality({i \in 1..Len(eviction') : eviction'[i].key = k}) = 1
            /\ items'[k].key = k
            /\ items'[k].value = v
            /\ items'[k].expiry = now + ttl
            /\ eviction'[1] = items'[k]
            /\ ListKeys(eviction') =
                   <<k>> \o ListKeys(ListRemove(eviction, items[k]))
            /\ ttl >= 0 => GetReturn(Cache', k, now) =
                               [op |-> "Get", key |-> k, value |-> v, err |-> FALSE]
      ]_vars

\* C18, reached: a Set has replaced an entry that had already expired, beside
\* another entry, and the key is readable again, first in the recency order.
C18_Witness ==
    /\ ret.op = "Set" /\ ret.replaced
    /\ ret.oldExpiry < ret.at
    /\ ret.ttl >= 0
    /\ now = ret.at
    /\ Len(eviction) = 2
    /\ eviction[1] = items[ret.key]
    /\ items[ret.key].expiry = ret.at + ret.ttl
    /\ ~GetReturn(Cache, ret.key, now).err

\* C19: a Get or Contains of a stored key whose entry has expired removes that
\* entry from the index and from the recency order and changes nothing else:
\* every other entry keeps its value, its expiry time and its place relative
\* to the others, and the capacity is as before. A Get or Contains of a key
\* that is not stored changes neither the index nor the recency order.
C19_LazyDeletionFrame ==
    [][\A k \in Keys :
         (GetCall(k) \/ ContainsCall(k))
         => /\ (k \in StoredKeys /\ now > items[k].expiry)
                => /\ DOMAIN items' = StoredKeys \ {k}
                   /\ \A j \in StoredKeys \ {k} : items'[j] = items[j]
                   /\ eviction' = ListRemove(eviction, items[k])
                   /\ Len(eviction') = Len(eviction) - 1
                   /\ \A i \in 1..Len(eviction') : eviction'[i].key # k
            /\ k \notin StoredKeys => items' = items /\ eviction' = eviction
            /\ capacity' = capacity
            /\ now' = now
      ]_vars

\* C19, reached: a Contains found its key stored and expired and removed it;
\* the other entry of the cache is still there.
C19_Witness ==
    /\ ret.op = "Contains" /\ ~ret.ok /\ ret.stored
    /\ ret.key \notin StoredKeys
    /\ Cardinality(StoredKeys) = 1
    /\ Len(eviction) = 1
    /\ eviction[1].key # ret.key

\* C20: one pass of evictExpiredItems removes from the index and from the
\* recency order every entry whose expiry time has passed (now > expiry time)
\* and no other; the entries that stay keep their values, their expiry times
\* and their relative order. After the pass no stored entry is expired, and a
\* Get of a removed key returns NotFound.
C20_SweepPass ==
    [][Sweep =>
         /\ \A k \in StoredKeys :
                k \in DOMAIN items' <=> ~(now > items[k].expiry)
         /\ \A k \in DOMAIN items' : items'[k] = items[k]
         /\ eviction' = SelectSeq(eviction, LAMBDA e : e.key \in DOMAIN items')
         /\ Len(eviction') = Cardinality(DOMAIN items')
         /\ \A k \in DOMAIN items' : ~Expired(items'[k], now)
         /\ \A k \in StoredKeys \ DOMAIN items' :
                /\ GetReturn(Cache', k, now) = NotFound(k)
                /\ ~ContainsReturn(Cache', k, now).ok
         /\ ret' = ret
      ]_vars

\* C20, reached: the entry of the latest call, a Set, is gone with no call
\* made since, which only a sweep pass does; of the two entries the cache
\* held, the pass has kept the one that has not expired.
C20_Witness ==
    /\ capacity = 2
    /\ ret.op = "Set" /\ ~ret.replaced /\ ret.evicted = 0
    /\ ret.key \notin StoredKeys
    /\ ret.at + ret.ttl < now
    /\ Cardinality(StoredKeys) = 1
    /\ \A j \in StoredKeys : ~Expired(items[j], now) /\ eviction = <<items[j]>>

====
